---- MODULE Spec2Model ----
(***************************************************************************)
(* A model of the clueless container toolkit: the arena-indexed doubly     *)
(* linked list (linked_list.rs), the chained hash map (hashmap.rs) and the *)
(* vector with its owning iterator (vec.rs, raw_vec.rs).                   *)
(*                                                                         *)
(* Indices are 0-based as in the source; TLA+ sequences are 1-based, so    *)
(* slot i of a buffer b is b[i + 1].  Option values are sequences: None is *)
(* <<>> and Some(v) is <<v>>.                                              *)
(***************************************************************************)
EXTENDS Integers, Sequences, FiniteSets, Bags, TLC

\* ---------------------------------------------------------------- bounds
\* Width of the list's index type, scaled down from 32 / 64 bits.
IdxBits == 4
\* Largest element value pushed into a list or a vector.
MaxVal == 2
\* Total number of pushes performed on a list in one run.
MaxPushes == 5
\* Largest length a vector is grown to.
MaxVecLen == 3
\* Largest key inserted into a map.
MaxKey == 1
\* Largest number of entries a map holds.
MaxEntries == 6
\* Largest bucket count at which a map still accepts inserts.
MaxBuckets == 16
\* Total number of removes that take an entry out of a map in one run.
MaxRemoves == 1

\* Distinct keys inserted into one map when its growth is examined.
MaxGrowthKeys == 9

\* Pushes that build a list before it is iterated.
MaxIterPushes == 3

\* Calls made on a list iterator beyond the number of elements.
MaxExtraCalls == 2

\* Nodes short of NIL a list holds when its last pushes are examined.
MaxNilGap == 2

\* Vec::reserve is not called on a vector whose capacity exceeds this.
MaxCap == 4

\* Largest argument of Vec::reserve.
MaxAdditional == 2

VARIABLES
    list,       \* LinkedList { buf, head, tail }
    ref,        \* reference container driven by the same operations
    lastOp,     \* name of the last operation performed
    arg,        \* argument (key or index) of the last operation
    ret,        \* what the last operation returned
    refRet,     \* what the reference returned for the last operation
    panicked,   \* TRUE once an operation has panicked
    pushes,     \* number of pushes so far
    pops,       \* number of pops so far that returned a value
    lit,        \* the list iterator in use: Iter / IterMut { head, tail, len },
                \* or IntoIter, which owns list
    yields,     \* the calls made on the list iterator and what they returned
    sizeOfT,    \* mem::size_of::<T>() of the vector's element type
    vec,        \* Vec { buf, len }; buf holds one slot per unit of capacity
    it,         \* vec::IntoIter { buf, current, end }
    phase,      \* "vec", then "iter" once into_iter has consumed the vector,
                \* then "dropped"; "fault" if an out-of-bounds read faulted;
                \* "boxed" between into_boxed_slice and from; "panicked"
                \* and "abort" once the process has stopped
    trace,      \* the slots the owning iterator has moved out, in order
    ub,         \* TRUE once an access has left the initialized slots
    boxed,      \* the Box<[T]> made by into_boxed_slice, while phase = "boxed"
    map,        \* HashMap { buckets }; a bucket is its chain, head first
    hash,       \* hasher.hash_one: the hash value of every key
    removes,    \* number of removes so far that took an entry out of the map
    rawvec,     \* the allocator's side of a vector: RawVec { ptr, cap } with
                \* size_of::<T>(), the vector's len, and the byte size of
                \* the block ptr refers to
    requests,   \* the allocator calls the last operation made, in order
    life        \* "start", "live", then "boxed" or "dropped"; "panicked"
                \* and "abort" once the process has stopped

vars == <<list, ref, lastOp, arg, ret, refRet, panicked, pushes, pops,
          lit, yields,
          sizeOfT, vec, it, phase, trace, ub, boxed, map, hash, removes,
          rawvec, requests, life>>

Vals == 1..MaxVal

None == <<>>
Some(v) == <<v>>

\* ------------------------------------------------------------ linked list
NIL == 2^IdxBits - 1

Node(val, prev, next) == [val |-> val, prev |-> prev, next |-> next]

\* slice::get_mut(i) and slice indexing succeed exactly for i < len
InRange(buf, i) == i >= 0 /\ i < Len(buf)

\* Vec::try_swap_remove on the live elements: the last element takes slot index
SwapRemove(buf, index) ==
    LET swapped == [buf EXCEPT ![index + 1] = buf[Len(buf)],
                               ![Len(buf)] = buf[index + 1]]
    IN  SubSeq(swapped, 1, Len(buf) - 1)

New == [buf |-> <<>>, head |-> NIL, tail |-> NIL]

\* The result of a list operation: the list it leaves, the value it returns and
\* whether it panicked (then l is the list at the moment of the panic).
Outcome(l, r, p) == [l |-> l, ret |-> r, panicked |-> p]

\* Idx::from_usize of the small list: the conversion to the index type
\* fails for a value above its maximum, which is NIL
FitsIdx(val) == val <= NIL

\* push_buf has pushed the node when from_usize panics
push_back(l, val) ==
    LET ptr == Len(l.buf)
        buf1 == Append(l.buf, Node(val, l.tail, NIL))
        head1 == IF l.head = NIL THEN ptr ELSE l.head
    IN  IF ~FitsIdx(ptr)
        THEN Outcome([buf |-> buf1, head |-> l.head, tail |-> l.tail], None, TRUE)
        ELSE IF l.tail # NIL
        THEN IF InRange(buf1, l.tail)
             THEN Outcome([buf |-> [buf1 EXCEPT ![l.tail + 1].next = ptr],
                           head |-> head1, tail |-> ptr], None, FALSE)
             ELSE Outcome([buf |-> buf1, head |-> head1, tail |-> l.tail], None, TRUE)
        ELSE Outcome([buf |-> buf1, head |-> head1, tail |-> ptr], None, FALSE)

push_front(l, val) ==
    LET ptr == Len(l.buf)
        buf1 == Append(l.buf, Node(val, NIL, l.head))
        tail1 == IF l.tail = NIL THEN ptr ELSE l.tail
    IN  IF ~FitsIdx(ptr)
        THEN Outcome([buf |-> buf1, head |-> l.head, tail |-> l.tail], None, TRUE)
        ELSE IF l.head # NIL
        THEN IF InRange(buf1, l.head)
             THEN Outcome([buf |-> [buf1 EXCEPT ![l.head + 1].prev = ptr],
                           head |-> ptr, tail |-> tail1], None, FALSE)
             ELSE Outcome([buf |-> buf1, head |-> l.head, tail |-> tail1], None, TRUE)
        ELSE Outcome([buf |-> buf1, head |-> ptr, tail |-> tail1], None, FALSE)

\* remove_node without the repointing of the last slot's predecessor
remove_node_norepoint(l, ptr) ==
    LET end == l.buf[Len(l.buf)]
        buf2 == IF InRange(l.buf, end.next)
                THEN [l.buf EXCEPT ![end.next + 1].prev = ptr] ELSE l.buf
    IN  IF ~InRange(buf2, ptr)
        THEN Outcome([l EXCEPT !.buf = buf2], None, TRUE)
        ELSE LET node == buf2[ptr + 1]
                 buf3 == SwapRemove(buf2, ptr)
                 head1 == IF l.head = Len(buf3) THEN ptr ELSE l.head
                 tail1 == IF l.tail = Len(buf3) THEN ptr ELSE l.tail
             IN  Outcome([buf |-> buf3, head |-> head1, tail |-> tail1], node, FALSE)

\* remove_node returns the list it leaves and the removed node in ret
remove_node(l, ptr) ==
    LET end == l.buf[Len(l.buf)]
        buf1 == IF InRange(l.buf, end.prev)
                THEN [l.buf EXCEPT ![end.prev + 1].next = ptr] ELSE l.buf
        buf2 == IF InRange(buf1, end.next)
                THEN [buf1 EXCEPT ![end.next + 1].prev = ptr] ELSE buf1
    IN  IF ~InRange(buf2, ptr)
        THEN Outcome([l EXCEPT !.buf = buf2], None, TRUE)
        ELSE LET node == buf2[ptr + 1]
                 buf3 == SwapRemove(buf2, ptr)
                 head1 == IF l.head = Len(buf3) THEN ptr ELSE l.head
                 tail1 == IF l.tail = Len(buf3) THEN ptr ELSE l.tail
             IN  Outcome([buf |-> buf3, head |-> head1, tail |-> tail1], node, FALSE)

pop_back(l) ==
    IF Len(l.buf) = 0 THEN Outcome(l, None, FALSE)
    ELSE LET r == remove_node(l, l.tail)
         IN  IF r.panicked THEN r
             ELSE LET l1 == [r.l EXCEPT !.tail = r.ret.prev]
                  IN  IF l1.tail # NIL
                      THEN IF InRange(l1.buf, l1.tail)
                           THEN Outcome([l1 EXCEPT !.buf[l1.tail + 1].next = NIL],
                                        Some(r.ret.val), FALSE)
                           ELSE Outcome(l1, None, TRUE)
                      ELSE Outcome(l1, Some(r.ret.val), FALSE)

pop_front(l) ==
    IF Len(l.buf) = 0 THEN Outcome(l, None, FALSE)
    ELSE LET r == remove_node(l, l.head)
         IN  IF r.panicked THEN r
             ELSE LET l1 == [r.l EXCEPT !.head = r.ret.next]
                  IN  IF l1.head # NIL
                      THEN IF InRange(l1.buf, l1.head)
                           THEN Outcome([l1 EXCEPT !.buf[l1.head + 1].prev = NIL],
                                        Some(r.ret.val), FALSE)
                           ELSE Outcome(l1, None, TRUE)
                      ELSE Outcome(l1, Some(r.ret.val), FALSE)

len(l) == Len(l.buf)

\* ----------------------------------------------- Iter, IterMut, IntoIter
NoListIter == [kind |-> "none", head |-> NIL, tail |-> NIL, len |-> 0]

list_into_iter(l, kind) ==
    IF kind = "into_iter"
    THEN [kind |-> kind, head |-> NIL, tail |-> NIL, len |-> 0]
    ELSE [kind |-> kind, head |-> l.head, tail |-> l.tail, len |-> len(l)]

IterOut(l, i, r, p) == [l |-> l, it |-> i, ret |-> r, panicked |-> p]

\* Iter::next and IterMut::next: checked_sub(1)?, then two indexed accesses
\* of buf[head], which panic on an index outside the storage
Iter_next(l, i) ==
    IF i.len = 0 THEN IterOut(l, i, None, FALSE)
    ELSE LET i1 == [i EXCEPT !.len = i.len - 1]
         IN  IF ~InRange(l.buf, i.head) THEN IterOut(l, i1, None, TRUE)
             ELSE IterOut(l, [i1 EXCEPT !.head = l.buf[i.head + 1].next],
                          Some(l.buf[i.head + 1].val), FALSE)

Iter_next_back(l, i) ==
    IF i.len = 0 THEN IterOut(l, i, None, FALSE)
    ELSE LET i1 == [i EXCEPT !.len = i.len - 1]
         IN  IF ~InRange(l.buf, i.tail) THEN IterOut(l, i1, None, TRUE)
             ELSE IterOut(l, [i1 EXCEPT !.tail = l.buf[i.tail + 1].prev],
                          Some(l.buf[i.tail + 1].val), FALSE)

\* IntoIter::next is pop_front and IntoIter::next_back is pop_back
IntoIter_next(l, i) ==
    LET o == pop_front(l) IN IterOut(o.l, i, o.ret, o.panicked)

IntoIter_next_back(l, i) ==
    LET o == pop_back(l) IN IterOut(o.l, i, o.ret, o.panicked)

list_iter_next(l, i) ==
    IF i.kind = "into_iter" THEN IntoIter_next(l, i) ELSE Iter_next(l, i)

list_iter_next_back(l, i) ==
    IF i.kind = "into_iter" THEN IntoIter_next_back(l, i) ELSE Iter_next_back(l, i)

\* Iter: the cursor record built by into_iter, and the sequence collected by
\* calling next (or next_back) until it returns None.  A step that indexes
\* outside the storage panics; the collected sequence then ends there, short
\* of the len() elements a completed iteration yields.
RECURSIVE IterNext(_, _, _)
IterNext(l, cur, n) ==
    IF n = 0 THEN <<>>
    ELSE IF ~InRange(l.buf, cur) THEN <<>>
    ELSE <<l.buf[cur + 1].val>> \o IterNext(l, l.buf[cur + 1].next, n - 1)

RECURSIVE IterNextBack(_, _, _)
IterNextBack(l, cur, n) ==
    IF n = 0 THEN <<>>
    ELSE IF ~InRange(l.buf, cur) THEN <<>>
    ELSE <<l.buf[cur + 1].val>> \o IterNextBack(l, l.buf[cur + 1].prev, n - 1)

iter(l) == IterNext(l, l.head, len(l))
iter_rev(l) == IterNextBack(l, l.tail, len(l))
iter_unordered(l) == [i \in 1..Len(l.buf) |-> l.buf[i].val]

\* ---------------------------------------------------------------- HashMap
Keys == 0..MaxKey

\* the hash values keys are given: equal or different modulo 8, and equal
\* modulo 8 but different modulo 16
HashVals == {0, 1, 8}

MAX_BUCKET_LEN == 6
MAP_START_CAPACITY == 8

Entry(key, val) == [key |-> key, val |-> val]

MapNew == [buckets |-> <<>>]

bucket_len(b) == Len(b)

\* push_node walks to the end of the chain and replaces the empty link there;
\* it returns what the link held
bucket_push_node(b, node) == [bucket |-> Append(b, node), prev |-> None]

bucket_push(b, key, val) ==
    LET r == bucket_push_node(b, Entry(key, val))
    IN  [bucket |-> r.bucket,
         prev |-> IF r.prev = None THEN None
                  ELSE Some(<<r.prev[1].key, r.prev[1].val>>)]

\* position in the chain of the first node with an equal key (0 when none)
bucket_find(b, key) ==
    IF \E i \in 1..Len(b) : b[i].key = key
    THEN CHOOSE i \in 1..Len(b) :
            b[i].key = key /\ \A j \in 1..(i - 1) : b[j].key # key
    ELSE 0

bucket_get(b, key) ==
    LET i == bucket_find(b, key)
    IN  IF i = 0 THEN None ELSE Some(b[i].val)

bucket_remove(b, key) ==
    LET i == bucket_find(b, key)
    IN  IF i = 0 THEN [bucket |-> b, entry |-> None]
        ELSE [bucket |-> SubSeq(b, 1, i - 1) \o SubSeq(b, i + 1, Len(b)),
              entry |-> Some(<<b[i].key, b[i].val>>)]

RECURSIVE SumLen(_, _)
SumLen(buckets, n) ==
    IF n = 0 THEN 0 ELSE bucket_len(buckets[n]) + SumLen(buckets, n - 1)

map_len(m) == SumLen(m.buckets, Len(m.buckets))

capacity(m) == Len(m.buckets)

\* what get_bucket_unchecked yields when hash % 0 panics
DivByZero == -1

get_bucket_unchecked_start(m, h, key) ==
    IF Len(m.buckets) = 0 THEN DivByZero ELSE h[key] % MAP_START_CAPACITY

get_bucket_unchecked(m, h, key) ==
    IF Len(m.buckets) = 0 THEN DivByZero ELSE h[key] % Len(m.buckets)

get_bucket_unguarded(m, h, key) == Some(get_bucket_unchecked(m, h, key))

\* None when the map holds no entry
get_bucket(m, h, key) ==
    IF map_len(m) = 0 THEN None ELSE Some(get_bucket_unchecked(m, h, key))

\* the nodes of the old buckets, bucket by bucket and head first
RECURSIVE Flatten(_, _)
Flatten(buckets, n) ==
    IF n = 0 THEN <<>> ELSE Flatten(buckets, n - 1) \o buckets[n]

RECURSIVE Rehash(_, _, _, _)
Rehash(m, h, nodes, n) ==
    IF n > Len(nodes) THEN m
    ELSE LET bucket == get_bucket_unchecked(m, h, nodes[n].key)
             pushed == bucket_push_node(m.buckets[bucket + 1], nodes[n])
         IN  Rehash([m EXCEPT !.buckets[bucket + 1] = pushed.bucket], h, nodes, n + 1)

map_grow_skip_first(m, h) ==
    IF Len(m.buckets) = 0
    THEN [buckets |-> [i \in 1..MAP_START_CAPACITY |-> <<>>]]
    ELSE LET nodes == Flatten(m.buckets, Len(m.buckets))
         IN  Rehash([buckets |-> [i \in 1..(2 * Len(m.buckets)) |-> <<>>]], h,
                    IF nodes = <<>> THEN nodes ELSE Tail(nodes), 1)

map_grow_triple(m, h) ==
    IF Len(m.buckets) = 0
    THEN [buckets |-> [i \in 1..MAP_START_CAPACITY |-> <<>>]]
    ELSE Rehash([buckets |-> [i \in 1..(3 * Len(m.buckets)) |-> <<>>]], h,
                Flatten(m.buckets, Len(m.buckets)), 1)

map_grow_norehash(m, h) ==
    IF Len(m.buckets) = 0
    THEN [buckets |-> [i \in 1..MAP_START_CAPACITY |-> <<>>]]
    ELSE [buckets |-> m.buckets \o [i \in 1..Len(m.buckets) |-> <<>>]]

map_grow(m, h) ==
    IF Len(m.buckets) = 0
    THEN [buckets |-> [i \in 1..MAP_START_CAPACITY |-> <<>>]]
    ELSE Rehash([buckets |-> [i \in 1..(2 * Len(m.buckets)) |-> <<>>]], h,
                Flatten(m.buckets, Len(m.buckets)), 1)

map_insert_no_threshold(m, h, key, val) ==
    LET m1 == IF Len(m.buckets) = 0 THEN map_grow(m, h) ELSE m
        bucket == get_bucket_unchecked(m1, h, key)
        pushed == bucket_push(m1.buckets[bucket + 1], key, val)
    IN  [m |-> [m1 EXCEPT !.buckets[bucket + 1] = pushed.bucket],
         ret |-> pushed.prev]

map_insert(m, h, key, val) ==
    LET m1 == IF Len(m.buckets) = 0 THEN map_grow(m, h) ELSE m
        bucket == get_bucket_unchecked(m1, h, key)
        pushed == bucket_push(m1.buckets[bucket + 1], key, val)
        m2 == [m1 EXCEPT !.buckets[bucket + 1] = pushed.bucket]
        m3 == IF bucket_len(m2.buckets[bucket + 1]) = MAX_BUCKET_LEN
              THEN map_grow(m2, h) ELSE m2
    IN  [m |-> m3, ret |-> pushed.prev]

map_get(m, h, key) ==
    LET bucket == get_bucket(m, h, key)
    IN  IF bucket = None THEN None ELSE bucket_get(m.buckets[bucket[1] + 1], key)

\* get_mut hands out a reference into the chain; the map is as it was
map_get_mut(m, h, key) ==
    LET bucket == get_bucket(m, h, key)
    IN  [m |-> m,
         ret |-> IF bucket = None THEN None
                 ELSE bucket_get(m.buckets[bucket[1] + 1], key)]

map_remove_entry(m, h, key) ==
    LET bucket == get_bucket(m, h, key)
    IN  IF bucket = None THEN [m |-> m, ret |-> None]
        ELSE LET r == bucket_remove(m.buckets[bucket[1] + 1], key)
             IN  [m |-> [m EXCEPT !.buckets[bucket[1] + 1] = r.bucket],
                  ret |-> r.entry]

map_remove(m, h, key) ==
    LET r == map_remove_entry(m, h, key)
    IN  [m |-> r.m, ret |-> IF r.ret = None THEN None ELSE Some(r.ret[1][2])]

contains_key(m, h, key) == map_get(m, h, key) # None

\* ---------------------------------------------------------------- HashSet
\* HashSet { inner: HashMap<T, ()> }; the value () is written 0
set_insert(inner, h, val) ==
    LET o == map_insert(inner, h, val, 0)
    IN  [inner |-> o.m, ret |-> IF o.ret = None THEN None ELSE Some(o.ret[1][1])]

set_contains(inner, h, val) == contains_key(inner, h, val)

\* ----------------------------------------------------------------- RawVec
\* A buffer is a sequence with one slot per unit of capacity.  A slot holds
\* an element, or Uninit when it holds no value the buffer owns: never
\* written, or moved out by read or shift.
Uninit == 0

ElemSizes == {1, 8, 2048}

START_CAPACITY(size) == IF size = 1 THEN 8 ELSE IF size <= 1024 THEN 4 ELSE 1

Max(a, b) == IF a >= b THEN a ELSE b

\* alloc / realloc: the first min(old, new) slots keep their contents
resize(buf, new_cap) ==
    [i \in 1..new_cap |-> IF i <= Len(buf) THEN buf[i] ELSE Uninit]

\* usize is UsizeBits wide: the source's 64 bits scaled to what the model's
\* integers hold.  usize::MAX and isize::MAX follow from the width.
UsizeBits == 30

USIZE_MAX == 2^UsizeBits - 1

ISIZE_MAX == 2^(UsizeBits - 1) - 1

\* self.cap + additional does not fit usize: a build with overflow checks
\* panics here, a build without them wraps
AddOverflows(cap, additional) == cap + additional > USIZE_MAX

\* the capacity reserve asks resize for, the sum wrapped to the width
reserve_cap(cap, additional, size) ==
    Max(IF cap = 0 THEN START_CAPACITY(size) ELSE 2 * cap,
        (cap + additional) % 2^UsizeBits)

\* Layout::array(new_cap).unwrap() and the assert on isize::MAX: the byte
\* size new_cap * size_of::<T>() exceeds isize::MAX
AllocationTooLarge(new_cap, size) == size > 0 /\ new_cap > ISIZE_MAX \div size

reserve(buf, additional, size) ==
    resize(buf, reserve_cap(Len(buf), additional, size))

grow(buf, size) == reserve(buf, 1, size)

InCap(buf, index) == index >= 0 /\ index < Len(buf)

write(buf, index, val) ==
    IF InCap(buf, index) THEN [buf EXCEPT ![index + 1] = val] ELSE buf

\* the value read (Uninit stands for whatever the slot happens to hold)
read(buf, index) == IF InCap(buf, index) THEN buf[index + 1] ELSE Uninit

\* the buffer after the value of slot index has been moved out
moved(buf, index) ==
    IF InCap(buf, index) THEN [buf EXCEPT ![index + 1] = Uninit] ELSE buf

\* shift that moves one element too few
shift_short(buf, from, to, count) ==
    [i \in 1..Len(buf) |->
        IF i - 1 >= to /\ i - 1 < to + count - 1 /\ InCap(buf, i - 1 - to + from)
        THEN buf[i - to + from]
        ELSE IF i - 1 >= from /\ i - 1 < from + count - 1 THEN Uninit ELSE buf[i]]

shift(buf, from, to, count) ==
    [i \in 1..Len(buf) |->
        IF i - 1 >= to /\ i - 1 < to + count /\ InCap(buf, i - 1 - to + from)
        THEN buf[i - to + from]
        ELSE IF i - 1 >= from /\ i - 1 < from + count THEN Uninit ELSE buf[i]]

\* an access is defined when it stays inside the allocation, and a read when
\* the slot holds a value
WriteDefined(buf, index) == InCap(buf, index)
ReadDefined(buf, index) == InCap(buf, index) /\ buf[index + 1] # Uninit
ShiftDefined(buf, from, to, count) ==
    count = 0 \/ (from >= 0 /\ to >= 0 /\ from + count <= Len(buf) /\ to + count <= Len(buf))

\* -------------------------------------------------------------------- Vec
Unit == 0
Ok(x) == [ok |-> TRUE, val |-> x]
IndexNotFound == [ok |-> FALSE, val |-> Unit]

VecNew == [buf |-> <<>>, len |-> 0]

cap(v) == Len(v.buf)

\* Deref: the slice of the live elements, in index order
as_slice(v) == [i \in 1..v.len |-> read(v.buf, i - 1)]

\* The result of a vector operation: the vector it leaves, the value it
\* returns and whether one of its accesses was undefined.
VecOutcome(v, r, u) == [v |-> v, ret |-> r, ub |-> u]

push_no_grow(v, val, size) ==
    VecOutcome([buf |-> write(v.buf, v.len, val), len |-> v.len + 1],
               None, ~WriteDefined(v.buf, v.len))

push(v, val, size) ==
    LET buf1 == IF v.len = cap(v) THEN grow(v.buf, size) ELSE v.buf
    IN  VecOutcome([buf |-> write(buf1, v.len, val), len |-> v.len + 1],
                   None, ~WriteDefined(buf1, v.len))

pop_unchecked(v) ==
    LET len1 == v.len - 1
    IN  VecOutcome([buf |-> moved(v.buf, len1), len |-> len1],
                   read(v.buf, len1), ~ReadDefined(v.buf, len1))

pop(v) ==
    IF v.len = 0 THEN VecOutcome(v, None, FALSE)
    ELSE LET o == pop_unchecked(v) IN VecOutcome(o.v, Some(o.ret), o.ub)

try_insert(v, index, val, size) ==
    IF index > v.len THEN VecOutcome(v, IndexNotFound, FALSE)
    ELSE LET buf1 == IF v.len = cap(v) THEN grow(v.buf, size) ELSE v.buf
             buf2 == shift(buf1, index, index + 1, v.len - index)
         IN  VecOutcome([buf |-> write(buf2, index, val), len |-> v.len + 1],
                        Ok(Unit),
                        \/ ~ShiftDefined(buf1, index, index + 1, v.len - index)
                        \/ ~WriteDefined(buf2, index))

try_remove_early_dec(v, index) ==
    IF index >= v.len
    THEN VecOutcome([v EXCEPT !.len = IF v.len = 0 THEN 0 ELSE v.len - 1],
                    IndexNotFound, FALSE)
    ELSE LET len1 == v.len - 1
             buf1 == moved(v.buf, index)
         IN  VecOutcome([buf |-> shift(buf1, index + 1, index, len1 - index),
                         len |-> len1],
                        Ok(read(v.buf, index)),
                        \/ ~ReadDefined(v.buf, index)
                        \/ ~ShiftDefined(buf1, index + 1, index, len1 - index))

try_remove(v, index) ==
    IF index >= v.len THEN VecOutcome(v, IndexNotFound, FALSE)
    ELSE LET len1 == v.len - 1
             buf1 == moved(v.buf, index)
         IN  VecOutcome([buf |-> shift(buf1, index + 1, index, len1 - index),
                         len |-> len1],
                        Ok(read(v.buf, index)),
                        \/ ~ReadDefined(v.buf, index)
                        \/ ~ShiftDefined(buf1, index + 1, index, len1 - index))

\* <[T]>::swap on the live slice: both indices are below len
swap(buf, a, b) == [buf EXCEPT ![a + 1] = buf[b + 1], ![b + 1] = buf[a + 1]]

try_swap_remove_keep_last(v, index) ==
    IF index >= v.len THEN VecOutcome(v, IndexNotFound, FALSE)
    ELSE LET o == pop_unchecked(v)
         IN  VecOutcome(o.v, Ok(read(v.buf, index)), o.ub)

try_swap_remove(v, index) ==
    IF index >= v.len THEN VecOutcome(v, IndexNotFound, FALSE)
    ELSE LET o == pop_unchecked([v EXCEPT !.buf = swap(v.buf, index, v.len - 1)])
         IN  VecOutcome(o.v, Ok(o.ret), o.ub)

\* the text of panic!("index was {index} when len was {}", self.len)
PanicMsg(index, length) == [index |-> index, len |-> length]

Unwrap_swallow(o, index) ==
    [v |-> o.v, ret |-> o.ret, ub |-> o.ub, panic |-> FALSE]

\* unwrap_or_else: a normal return is recorded as Ok(payload), a panic as
\* its message, formatted from self.len as the failed call left it
Unwrap(o, index) ==
    IF o.ret = IndexNotFound
    THEN [v |-> o.v, ret |-> PanicMsg(index, o.v.len), ub |-> o.ub, panic |-> TRUE]
    ELSE [v |-> o.v, ret |-> o.ret, ub |-> o.ub, panic |-> FALSE]

insert(v, index, val, size) == Unwrap(try_insert(v, index, val, size), index)
remove(v, index) == Unwrap(try_remove(v, index), index)
swap_remove(v, index) == Unwrap(try_swap_remove(v, index), index)

vec_reserve(v, additional, size) ==
    [v EXCEPT !.buf = reserve(v.buf, additional, size)]

with_capacity(n, size) == vec_reserve(VecNew, n, size)

shrink_to_fit_keep_cap(v) == [v EXCEPT !.buf = resize(v.buf, cap(v))]

shrink_to_fit(v) == [v EXCEPT !.buf = resize(v.buf, v.len)]

\* Box::from_raw(as_slice_mut()) of the shrunk vector: the live slice
into_boxed_slice(v) ==
    LET s == shrink_to_fit(v) IN SubSeq(s.buf, 1, s.len)

\* From<Box<[T]>>: cap = value.len(), len = cap
from_box(value) == [buf |-> value, len |-> Len(value)]

\* resize(0) hands the allocator a request of zero bytes
ZeroSizeRequest(new_cap) == new_cap = 0

\* --------------------------------------------------------- vec::IntoIter
NoIter == [buf |-> <<>>, current |-> 0, end |-> 0]

into_iter(v) == [buf |-> v.buf, current |-> 0, end |-> v.len]

\* The result of an iterator step: the iterator it leaves, the slot it read
\* (-1 when it read none) and the value it found there.
IterOutcome(i, idx, val) == [it |-> i, idx |-> idx, val |-> val]

next(i) ==
    IF i.current = i.end THEN IterOutcome(i, -1, Uninit)
    ELSE IterOutcome([i EXCEPT !.buf = moved(i.buf, i.current),
                               !.current = i.current + 1],
                     i.current, read(i.buf, i.current))

next_back(i) ==
    IF i.current = i.end THEN IterOutcome(i, -1, Uninit)
    ELSE IterOutcome([i EXCEPT !.buf = moved(i.buf, i.end),
                               !.end = i.end - 1],
                     i.end, read(i.buf, i.end))

\* ExactSizeIterator::len
iter_len(i) == i.end - i.current

\* Drop: "for _ in self {}" calls next until it returns None; the result is
\* the iterator it leaves and the sequence of the reads it made.
RECURSIVE drop(_)
drop(i) ==
    LET o == next(i)
    IN  IF o.idx = -1 THEN [it |-> i, reads |-> <<>>]
        ELSE LET rest == drop(o.it)
             IN  [it |-> rest.it,
                  reads |-> <<[op |-> "drop", idx |-> o.idx, val |-> o.val,
                               defined |-> ReadDefined(i.buf, o.idx)]>> \o rest.reads]

\* What a read of slot idx can produce: the element when the slot holds one;
\* otherwise the read is undefined and yields any bit pattern, or faults when
\* the slot lies outside the allocation.
ReadOutcomes(buf, idx) ==
    IF ReadDefined(buf, idx)
    THEN {[val |-> buf[idx + 1], fault |-> FALSE]}
    ELSE {[val |-> g, fault |-> FALSE] : g \in Vals \cup {Uninit}}
         \cup (IF InCap(buf, idx) THEN {} ELSE {[val |-> Uninit, fault |-> TRUE]})

\* ------------------------------------------------- RawVec and the allocator
\* ptr is dangling until the first resize; afterwards it refers to a block
\* whose byte size is the layout of that resize
Dangling == -1

raw_new(size) == [size |-> size, cap |-> 0, len |-> 0, block |-> Dangling]

\* Layout::array::<T>(n).size()
LayoutBytes(n, size) == n * size

\* one call of alloc::alloc, alloc::realloc or alloc::dealloc: the layout it
\* is given and the size it asks for
Request(fn, layout, new_size) == [fn |-> fn, layout |-> layout, new_size |-> new_size]

ZeroSized(q) == q.layout = 0 \/ q.new_size = 0

NoRequest(r) == [r |-> r, requests |-> <<>>, panic |-> FALSE]

RawPanic(r) == [r |-> r, requests |-> <<>>, panic |-> TRUE]

\* RawVec::resize: alloc for a buffer without capacity, realloc otherwise
raw_resize(r, new_cap) ==
    IF AllocationTooLarge(new_cap, r.size) THEN RawPanic(r)
    ELSE [r |-> [r EXCEPT !.cap = new_cap, !.block = LayoutBytes(new_cap, r.size)],
          requests |-> <<IF r.cap = 0
                         THEN Request("alloc", LayoutBytes(new_cap, r.size),
                                      LayoutBytes(new_cap, r.size))
                         ELSE Request("realloc", LayoutBytes(r.cap, r.size),
                                      LayoutBytes(new_cap, r.size))>>,
          panic |-> FALSE]

raw_reserve(r, additional) ==
    raw_resize(r, reserve_cap(r.cap, additional, r.size))

\* Vec::push, the allocator's side: grow when full, then one more element
raw_push(r) ==
    LET g == IF r.len = r.cap THEN raw_reserve(r, 1) ELSE NoRequest(r)
    IN  IF g.panic THEN g ELSE [g EXCEPT !.r.len = r.len + 1]

raw_shrink_to_fit(r) == raw_resize(r, r.len)

\* Drop for RawVec
raw_drop(r) ==
    IF r.size = 0 \/ r.cap = 0 THEN NoRequest(r)
    ELSE [r |-> r,
          requests |-> <<Request("dealloc", LayoutBytes(r.cap, r.size),
                                 LayoutBytes(r.cap, r.size))>>,
          panic |-> FALSE]

\* ------------------------------------------------------------ state groups
vecVars == <<sizeOfT, vec, it, phase, trace, ub, boxed>>
listVars == <<list, panicked, pushes, pops, lit, yields>>

\* the vector part of the state while another container is exercised
VecIdle ==
    /\ sizeOfT = 8
    /\ vec = VecNew
    /\ it = NoIter
    /\ phase = "idle"
    /\ trace = <<>>
    /\ ub = FALSE
    /\ boxed = <<>>

ListIdle ==
    /\ list = New
    /\ panicked = FALSE
    /\ pushes = 0
    /\ pops = 0
    /\ lit = NoListIter
    /\ yields = <<>>

mapVars == <<map, hash, removes>>

MapIdle ==
    /\ map = MapNew
    /\ hash = [k \in Keys |-> 0]
    /\ removes = 0

allocVars == <<rawvec, requests, life>>

AllocIdle ==
    /\ rawvec = raw_new(8)
    /\ requests = <<>>
    /\ life = "idle"

\* ------------------------------------------------------- list operations
InitList ==
    /\ list = New
    /\ ref = <<>>
    /\ arg = 0
    /\ lastOp = "new"
    /\ ret = None
    /\ refRet = None
    /\ panicked = FALSE
    /\ pushes = 0
    /\ pops = 0
    /\ lit = NoListIter
    /\ yields = <<>>
    /\ VecIdle
    /\ MapIdle
    /\ AllocIdle

Apply(o, op, d, rr) ==
    /\ list' = o.l
    /\ ret' = o.ret
    /\ panicked' = o.panicked
    /\ lastOp' = op
    /\ ref' = d
    /\ arg' = 0
    /\ refRet' = rr
    /\ UNCHANGED <<lit, yields>>
    /\ UNCHANGED <<vecVars, mapVars, allocVars>>

PushBack(v) ==
    /\ ~panicked /\ lit = NoListIter /\ pushes < MaxPushes
    /\ Apply(push_back(list, v), "push_back", Append(ref, v), None)
    /\ pushes' = pushes + 1
    /\ UNCHANGED pops

PushFront(v) ==
    /\ ~panicked /\ lit = NoListIter /\ pushes < MaxPushes
    /\ Apply(push_front(list, v), "push_front", <<v>> \o ref, None)
    /\ pushes' = pushes + 1
    /\ UNCHANGED pops

PopBack ==
    /\ ~panicked /\ lit = NoListIter
    /\ LET o == pop_back(list)
       IN  /\ Apply(o, "pop_back",
                    IF ref = <<>> THEN ref ELSE SubSeq(ref, 1, Len(ref) - 1),
                    IF ref = <<>> THEN None ELSE Some(ref[Len(ref)]))
           /\ pops' = IF o.ret # None /\ ~o.panicked THEN pops + 1 ELSE pops
    /\ UNCHANGED pushes

PopFront ==
    /\ ~panicked /\ lit = NoListIter
    /\ LET o == pop_front(list)
       IN  /\ Apply(o, "pop_front",
                    IF ref = <<>> THEN ref ELSE Tail(ref),
                    IF ref = <<>> THEN None ELSE Some(Head(ref)))
           /\ pops' = IF o.ret # None /\ ~o.panicked THEN pops + 1 ELSE pops
    /\ UNCHANGED pushes

NextList ==
    \/ \E v \in Vals : PushBack(v)
    \/ \E v \in Vals : PushFront(v)
    \/ PopBack
    \/ PopFront

SpecList == InitList /\ [][NextList]_vars

\* ------------------------------------------- pushes of a list that is full
\* The list has been filled by push_back to MaxNilGap nodes short of NIL.
RECURSIVE Filled(_)
Filled(n) == IF n = 0 THEN New ELSE push_back(Filled(n - 1), 1 + (n % MaxVal)).l

FilledVals(n) == [i \in 1..n |-> 1 + (i % MaxVal)]

InitFull ==
    /\ list = Filled(NIL - MaxNilGap)
    /\ ref = FilledVals(NIL - MaxNilGap)
    /\ arg = 0
    /\ lastOp = "push_back"
    /\ ret = None
    /\ refRet = None
    /\ panicked = FALSE
    /\ pushes = NIL - MaxNilGap
    /\ pops = 0
    /\ lit = NoListIter
    /\ yields = <<>>
    /\ VecIdle
    /\ MapIdle
    /\ AllocIdle

FullPushBack(v) ==
    /\ ~panicked /\ pushes < NIL + 2
    /\ Apply(push_back(list, v), "push_back", Append(ref, v), None)
    /\ pushes' = pushes + 1
    /\ UNCHANGED pops

FullPushFront(v) ==
    /\ ~panicked /\ pushes < NIL + 2
    /\ Apply(push_front(list, v), "push_front", <<v>> \o ref, None)
    /\ pushes' = pushes + 1
    /\ UNCHANGED pops

NextFull ==
    \/ \E v \in Vals : FullPushBack(v)
    \/ \E v \in Vals : FullPushFront(v)

SpecFull == InitFull /\ [][NextFull]_vars

\* ------------------------------------------------ list iterator operations
IterKinds == {"iter", "iter_mut", "into_iter"}

\* into_iter of &LinkedList, of &mut LinkedList and of LinkedList
ListIntoIter(kind) ==
    /\ ~panicked /\ lit = NoListIter
    /\ lit' = list_into_iter(list, kind)
    /\ yields' = <<>>
    /\ lastOp' = kind
    /\ arg' = 0
    /\ ret' = None
    /\ refRet' = None
    /\ UNCHANGED <<list, ref, panicked, pushes, pops>>
    /\ UNCHANGED <<vecVars, mapVars, allocVars>>

ListIterStep(o, op) ==
    /\ lit' = o.it
    /\ list' = o.l
    /\ panicked' = o.panicked
    /\ ret' = o.ret
    /\ yields' = Append(yields, [op |-> op, val |-> o.ret, panicked |-> o.panicked])
    /\ lastOp' = op
    /\ arg' = 0
    /\ refRet' = None
    /\ UNCHANGED <<ref, pushes, pops>>
    /\ UNCHANGED <<vecVars, mapVars, allocVars>>

ListIterNext ==
    /\ ~panicked /\ lit # NoListIter
    /\ Len(yields) < Len(ref) + MaxExtraCalls
    /\ ListIterStep(list_iter_next(list, lit), "next")

ListIterNextBack ==
    /\ ~panicked /\ lit # NoListIter
    /\ Len(yields) < Len(ref) + MaxExtraCalls
    /\ ListIterStep(list_iter_next_back(list, lit), "next_back")

NextListIter ==
    \/ pushes < MaxIterPushes /\ \E v \in Vals : PushBack(v)
    \/ pushes < MaxIterPushes /\ \E v \in Vals : PushFront(v)
    \/ PopBack
    \/ PopFront
    \/ \E kind \in IterKinds : ListIntoIter(kind)
    \/ ListIterNext
    \/ ListIterNextBack

SpecListIter == InitList /\ [][NextListIter]_vars

\* -------------------------------------------------------- Vec operations
\* a vector starts from Vec::new or from Vec::with_capacity
InitVec ==
    /\ sizeOfT \in ElemSizes
    /\ vec \in {VecNew} \cup {with_capacity(n, sizeOfT) : n \in 0..MaxAdditional}
    /\ it = NoIter
    /\ phase = "vec"
    /\ trace = <<>>
    /\ ub = FALSE
    /\ boxed = <<>>
    /\ ref = <<>>
    /\ lastOp = "new"
    /\ arg = 0
    /\ ret = None
    /\ refRet = None
    /\ ListIdle
    /\ MapIdle
    /\ AllocIdle

ApplyVec(o, op, a, r, rr) ==
    /\ vec' = o.v
    /\ ret' = o.ret
    /\ ub' = (ub \/ o.ub)
    /\ lastOp' = op
    /\ arg' = a
    /\ ref' = r
    /\ refRet' = rr
    /\ UNCHANGED <<sizeOfT, boxed, it, phase, trace>>
    /\ UNCHANGED <<listVars, mapVars, allocVars>>

InsertAt(s, index, v) == SubSeq(s, 1, index) \o <<v>> \o SubSeq(s, index + 1, Len(s))
RemoveAt(s, index) == SubSeq(s, 1, index) \o SubSeq(s, index + 2, Len(s))

Push(val) ==
    /\ phase = "vec" /\ vec.len < MaxVecLen
    /\ ApplyVec(push(vec, val, sizeOfT), "push", 0, Append(ref, val), None)

Pop ==
    /\ phase = "vec"
    /\ ApplyVec(pop(vec), "pop", 0,
                IF ref = <<>> THEN ref ELSE SubSeq(ref, 1, Len(ref) - 1),
                IF ref = <<>> THEN None ELSE Some(ref[Len(ref)]))

TryInsert(index, val) ==
    /\ phase = "vec" /\ vec.len < MaxVecLen
    /\ ApplyVec(try_insert(vec, index, val, sizeOfT), "try_insert", index,
                IF index > Len(ref) THEN ref ELSE InsertAt(ref, index, val),
                IF index > Len(ref) THEN IndexNotFound ELSE Ok(Unit))

TryRemove(index) ==
    /\ phase = "vec"
    /\ ApplyVec(try_remove(vec, index), "try_remove", index,
                IF index >= Len(ref) THEN ref ELSE RemoveAt(ref, index),
                IF index >= Len(ref) THEN IndexNotFound ELSE Ok(ref[index + 1]))

SwapRemoveAt(s, index) ==
    IF index = Len(s) - 1 THEN SubSeq(s, 1, index)
    ELSE SubSeq(s, 1, index) \o <<s[Len(s)]>> \o SubSeq(s, index + 2, Len(s) - 1)

TrySwapRemove(index) ==
    /\ phase = "vec"
    /\ ApplyVec(try_swap_remove(vec, index), "try_swap_remove", index,
                IF index >= Len(ref) THEN ref ELSE SwapRemoveAt(ref, index),
                IF index >= Len(ref) THEN IndexNotFound ELSE Ok(ref[index + 1]))

\* the asserting forms: a panic ends the run of the vector
ApplyAsserting(o, op, a, r, rr) ==
    /\ vec' = o.v
    /\ ret' = o.ret
    /\ ub' = (ub \/ o.ub)
    /\ phase' = IF o.panic THEN "panicked" ELSE phase
    /\ lastOp' = op
    /\ arg' = a
    /\ ref' = r
    /\ refRet' = rr
    /\ UNCHANGED <<sizeOfT, boxed, it, trace>>
    /\ UNCHANGED <<listVars, mapVars, allocVars>>

Insert(index, val) ==
    /\ phase = "vec" /\ vec.len < MaxVecLen
    /\ ApplyAsserting(insert(vec, index, val, sizeOfT), "insert", index,
                      IF index > Len(ref) THEN ref ELSE InsertAt(ref, index, val),
                      IF index > Len(ref) THEN PanicMsg(index, Len(ref)) ELSE Ok(Unit))

Remove(index) ==
    /\ phase = "vec"
    /\ ApplyAsserting(remove(vec, index), "remove", index,
                      IF index >= Len(ref) THEN ref ELSE RemoveAt(ref, index),
                      IF index >= Len(ref) THEN PanicMsg(index, Len(ref))
                      ELSE Ok(ref[index + 1]))

VecSwapRemove(index) ==
    /\ phase = "vec"
    /\ ApplyAsserting(swap_remove(vec, index), "swap_remove", index,
                      IF index >= Len(ref) THEN ref ELSE SwapRemoveAt(ref, index),
                      IF index >= Len(ref) THEN PanicMsg(index, Len(ref))
                      ELSE Ok(ref[index + 1]))

\* the call stops with a panic and the vector as it was
Panic(op, a) ==
    /\ phase' = "panicked"
    /\ lastOp' = op
    /\ arg' = a
    /\ ret' = None
    /\ refRet' = None
    /\ UNCHANGED <<sizeOfT, vec, it, trace, ub, boxed, ref>>
    /\ UNCHANGED <<listVars, mapVars, allocVars>>

Reserve(additional) ==
    /\ phase = "vec" /\ cap(vec) <= MaxCap
    /\ \/ /\ AddOverflows(cap(vec), additional)
          /\ Panic("reserve", additional)
       \/ /\ AllocationTooLarge(reserve_cap(cap(vec), additional, sizeOfT), sizeOfT)
          /\ Panic("reserve", additional)
       \/ /\ ~AllocationTooLarge(reserve_cap(cap(vec), additional, sizeOfT), sizeOfT)
          /\ ApplyVec(VecOutcome(vec_reserve(vec, additional, sizeOfT), None, FALSE),
                      "reserve", additional, ref, None)

\* a request of zero bytes is undefined: the allocator returns a pointer and
\* the call completes, or it returns null and handle_alloc_error aborts
Abort(op) ==
    /\ phase' = "abort"
    /\ lastOp' = op
    /\ arg' = 0
    /\ ret' = None
    /\ refRet' = None
    /\ UNCHANGED <<sizeOfT, vec, it, trace, ub, boxed, ref>>
    /\ UNCHANGED <<listVars, mapVars, allocVars>>

ShrinkToFit ==
    /\ phase = "vec"
    /\ \/ ApplyVec(VecOutcome(shrink_to_fit(vec), None, FALSE),
                   "shrink_to_fit", 0, ref, None)
       \/ ZeroSizeRequest(vec.len) /\ Abort("shrink_to_fit")

IntoBoxedSlice ==
    /\ phase = "vec"
    /\ \/ /\ boxed' = into_boxed_slice(vec)
          /\ vec' = VecNew
          /\ phase' = "boxed"
          /\ lastOp' = "into_boxed_slice"
          /\ arg' = 0
          /\ ret' = None
          /\ refRet' = None
          /\ UNCHANGED <<sizeOfT, it, trace, ub, ref>>
          /\ UNCHANGED <<listVars, mapVars, allocVars>>
       \/ ZeroSizeRequest(vec.len) /\ Abort("into_boxed_slice")

FromBox ==
    /\ phase = "boxed"
    /\ vec' = from_box(boxed)
    /\ boxed' = <<>>
    /\ phase' = "vec"
    /\ lastOp' = "from_box"
    /\ arg' = 0
    /\ ret' = None
    /\ refRet' = None
    /\ UNCHANGED <<sizeOfT, it, trace, ub, ref>>
    /\ UNCHANGED <<listVars, mapVars, allocVars>>

\* into_iter consumes the vector; ref keeps the elements it held
IntoIter ==
    /\ phase = "vec"
    /\ it' = into_iter(vec)
    /\ vec' = VecNew
    /\ phase' = "iter"
    /\ ref' = as_slice(vec)
    /\ lastOp' = "into_iter"
    /\ arg' = 0
    /\ ret' = None
    /\ refRet' = None
    /\ UNCHANGED <<sizeOfT, boxed, trace, ub>>
    /\ UNCHANGED <<listVars, mapVars, allocVars>>

IterStep(o, op) ==
    /\ lastOp' = op
    /\ arg' = 0
    /\ UNCHANGED <<sizeOfT, boxed, vec, ref, refRet>>
    /\ UNCHANGED <<listVars, mapVars, allocVars>>
    /\ IF o.idx = -1
       THEN /\ ret' = None
            /\ UNCHANGED <<it, phase, trace, ub>>
       ELSE \E r \in ReadOutcomes(it.buf, o.idx) :
            /\ it' = o.it
            /\ ub' = (ub \/ ~ReadDefined(it.buf, o.idx))
            /\ phase' = IF r.fault THEN "fault" ELSE phase
            /\ ret' = IF r.fault THEN None ELSE Some(r.val)
            /\ trace' = Append(trace, [op |-> op, idx |-> o.idx, val |-> r.val,
                                       defined |-> ReadDefined(it.buf, o.idx)])

IterNextStep == phase = "iter" /\ IterStep(next(it), "next")

IterNextBackStep == phase = "iter" /\ IterStep(next_back(it), "next_back")

IterDrop ==
    /\ phase = "iter"
    /\ LET d == drop(it)
       IN  /\ trace' = trace \o d.reads
           /\ ub' = (ub \/ \E k \in 1..Len(d.reads) : ~d.reads[k].defined)
           /\ it' = d.it
    /\ phase' = "dropped"
    /\ lastOp' = "drop"
    /\ arg' = 0
    /\ ret' = None
    /\ UNCHANGED <<sizeOfT, boxed, vec, ref, refRet>>
    /\ UNCHANGED <<listVars, mapVars, allocVars>>

NextVec ==
    \/ \E v \in Vals : Push(v)
    \/ Pop
    \/ \E i \in 0..(vec.len + 1), v \in Vals : TryInsert(i, v)
    \/ \E i \in 0..vec.len : TryRemove(i)
    \/ \E i \in 0..vec.len : TrySwapRemove(i)
    \/ \E i \in 0..(vec.len + 1), v \in Vals : Insert(i, v)
    \/ \E i \in 0..vec.len : Remove(i)
    \/ \E i \in 0..vec.len : VecSwapRemove(i)
    \/ \E n \in (0..MaxAdditional) \cup {USIZE_MAX} : Reserve(n)
    \/ ShrinkToFit
    \/ IntoBoxedSlice
    \/ FromBox
    \/ IntoIter
    \/ IterNextStep
    \/ IterNextBackStep
    \/ IterDrop

SpecVec == InitVec /\ [][NextVec]_vars

\* ------------------------------------------- Vec operations, allocator side
\* The element type may be zero-sized here.
AllocSizes == {0} \cup ElemSizes

InitAlloc ==
    /\ rawvec \in {raw_new(size) : size \in AllocSizes}
    /\ requests = <<>>
    /\ life = "start"
    /\ lastOp = "none"
    /\ arg = 0
    /\ ret = None
    /\ ref = <<>>
    /\ refRet = None
    /\ ListIdle
    /\ VecIdle
    /\ MapIdle

\* The operation returns, panics, or, having handed the allocator a request
\* of zero bytes (undefined for the allocator), gets null back and stops in
\* handle_alloc_error.
ApplyRaw(o, op, a, after) ==
    /\ lastOp' = op
    /\ arg' = a
    /\ requests' = o.requests
    /\ \/ /\ rawvec' = o.r
          /\ life' = IF o.panic THEN "panicked" ELSE after
       \/ /\ \E k \in 1..Len(o.requests) :
                 o.requests[k].fn # "dealloc" /\ ZeroSized(o.requests[k])
          /\ rawvec' = rawvec
          /\ life' = "abort"
    /\ UNCHANGED <<ret, ref, refRet>>
    /\ UNCHANGED <<listVars, vecVars, mapVars>>

AllocNew ==
    /\ life = "start"
    /\ ApplyRaw(NoRequest(rawvec), "new", 0, "live")

\* self.cap + additional that does not fit usize panics in a build with
\* overflow checks and wraps otherwise
ReserveOutcomes(r, additional) ==
    {raw_reserve(r, additional)}
        \cup (IF AddOverflows(r.cap, additional) THEN {RawPanic(r)} ELSE {})

AllocWithCapacity(n) ==
    /\ life = "start"
    /\ \E o \in ReserveOutcomes(rawvec, n) : ApplyRaw(o, "with_capacity", n, "live")

AllocPush ==
    /\ life = "live" /\ rawvec.len < MaxVecLen
    /\ ApplyRaw(raw_push(rawvec), "push", 0, "live")

AllocReserve(additional) ==
    /\ life = "live" /\ rawvec.cap <= MaxCap
    /\ \E o \in ReserveOutcomes(rawvec, additional) :
           ApplyRaw(o, "reserve", additional, "live")

AllocShrinkToFit ==
    /\ life = "live"
    /\ ApplyRaw(raw_shrink_to_fit(rawvec), "shrink_to_fit", 0, "live")

\* the Box owns the block from here on
AllocIntoBoxedSlice ==
    /\ life = "live"
    /\ ApplyRaw(raw_shrink_to_fit(rawvec), "into_boxed_slice", 0, "boxed")

AllocDrop ==
    /\ life = "live"
    /\ ApplyRaw(raw_drop(rawvec), "drop", 0, "dropped")

NextAlloc ==
    \/ AllocNew
    \/ \E n \in (0..MaxAdditional) \cup {USIZE_MAX} : AllocWithCapacity(n)
    \/ AllocPush
    \/ \E n \in (0..MaxAdditional) \cup {USIZE_MAX} : AllocReserve(n)
    \/ AllocShrinkToFit
    \/ AllocIntoBoxedSlice
    \/ AllocDrop

SpecAlloc == InitAlloc /\ [][NextAlloc]_vars

\* -------------------------------------------------------- map operations
\* The map treats keys alike (it only hashes and compares them), so the hash
\* values are given to the keys in non-decreasing order.  It treats buckets
\* alike too, so the smallest hash value is 0.
SortedHashes ==
    {h \in [Keys -> HashVals] : h[0] = 0 /\ \A k \in Keys : k = 0 \/ h[k - 1] <= h[k]}

InitMap ==
    /\ map = MapNew
    /\ hash \in SortedHashes
    /\ removes = 0
    /\ ref = [k \in Keys |-> None]
    /\ lastOp = "new"
    /\ arg = 0
    /\ ret = None
    /\ refRet = None
    /\ ListIdle
    /\ VecIdle
    /\ AllocIdle

\* Every insert stores a value that differs from the key's current one, so
\* that the most recent insert of a key can be told from an older one.  The
\* map never inspects a value, so two values are enough.
NextVal(key) == IF ref[key] = None THEN 1 ELSE (ref[key][1] % 2) + 1

MapInsert(key) ==
    /\ map_len(map) < MaxEntries /\ capacity(map) <= MaxBuckets
    /\ LET o == map_insert(map, hash, key, NextVal(key))
       IN  /\ map' = o.m
           /\ ret' = o.ret
    /\ lastOp' = "insert"
    /\ arg' = key
    /\ refRet' = IF ref[key] = None THEN None ELSE Some(<<key, ref[key][1]>>)
    /\ ref' = [ref EXCEPT ![key] = Some(NextVal(key))]
    /\ UNCHANGED <<hash, removes>>
    /\ UNCHANGED <<listVars, vecVars, allocVars>>

MapRemove(key) ==
    /\ LET o == map_remove(map, hash, key)
       IN  /\ o.ret # None => removes < MaxRemoves
           /\ map' = o.m
           /\ ret' = o.ret
           /\ removes' = IF o.ret # None THEN removes + 1 ELSE removes
    /\ lastOp' = "remove"
    /\ arg' = key
    /\ refRet' = ref[key]
    /\ ref' = [ref EXCEPT ![key] = None]
    /\ UNCHANGED hash
    /\ UNCHANGED <<listVars, vecVars, allocVars>>

NextMap ==
    \/ \E k \in Keys : MapInsert(k)
    \/ \E k \in Keys : MapRemove(k)

SpecMap == InitMap /\ [][NextMap]_vars

\* ------------------------------------------------------ growth of the map
\* Keys 0, 1, 2, .. are inserted once each, in this order, as test_growth
\* does; ref lists the values given to them.  The hash value of a key is
\* chosen when the key is inserted: 0 or 8, which share a bucket among 8
\* buckets and part among 16, or the key itself.
GrowthKeys == 0..(MaxGrowthKeys - 1)

GrowthHashes(key) == {0, 8, key}

\* the value inserted with a key
GrowthVal(key) == 1 + (key % MaxVal)

InitGrowth ==
    /\ map = MapNew
    /\ hash = [k \in GrowthKeys |-> 0]
    /\ removes = 0
    /\ ref = <<>>
    /\ lastOp = "new"
    /\ arg = 0
    /\ ret = None
    /\ refRet = None
    /\ ListIdle
    /\ VecIdle
    /\ AllocIdle

GrowthInsert(hv) ==
    /\ Len(ref) < MaxGrowthKeys /\ capacity(map) <= MaxBuckets
    /\ LET key == Len(ref)
           h1 == [hash EXCEPT ![key] = hv]
           o == map_insert(map, h1, key, GrowthVal(key))
       IN  /\ hash' = h1
           /\ map' = o.m
           /\ ret' = o.ret
           /\ arg' = key
           /\ ref' = Append(ref, GrowthVal(key))
    /\ lastOp' = "insert"
    /\ refRet' = None
    /\ UNCHANGED removes
    /\ UNCHANGED <<listVars, vecVars, allocVars>>

NextGrowth == \E hv \in GrowthHashes(Len(ref)) : GrowthInsert(hv)

SpecGrowth == InitGrowth /\ [][NextGrowth]_vars

\* -------------------------------------------------------- set operations
\* map is the set's inner map; ref is the set of the values inserted
InitSet ==
    /\ map = MapNew
    /\ hash \in SortedHashes
    /\ removes = 0
    /\ ref = {}
    /\ lastOp = "new"
    /\ arg = 0
    /\ ret = None
    /\ refRet = None
    /\ ListIdle
    /\ VecIdle
    /\ AllocIdle

SetInsert(val) ==
    /\ map_len(map) < MaxEntries /\ capacity(map) <= MaxBuckets
    /\ LET o == set_insert(map, hash, val)
       IN  /\ map' = o.inner
           /\ ret' = o.ret
    /\ lastOp' = "insert"
    /\ arg' = val
    /\ refRet' = IF val \in ref THEN Some(val) ELSE None
    /\ ref' = ref \cup {val}
    /\ UNCHANGED <<hash, removes>>
    /\ UNCHANGED <<listVars, vecVars, allocVars>>

NextSet == \E val \in Keys : SetInsert(val)

SpecSet == InitSet /\ [][NextSet]_vars

\* ------------------------------------------------------ list properties
Reverse(s) == [i \in 1..Len(s) |-> s[Len(s) + 1 - i]]

SeqToBag(s) ==
    [v \in {s[i] : i \in 1..Len(s)} |-> Cardinality({i \in 1..Len(s) : s[i] = v})]

IsPop == lastOp \in {"pop_back", "pop_front"}

\* C1: after any sequence of push_front, push_back, pop_front and pop_back,
\* iter and iter().rev() yield mirror-image sequences, and both yield exactly
\* (pushes) - (pops that returned a value) elements.
C1_MirrorAndCount ==
    /\ iter(list) = Reverse(iter_rev(list))
    /\ Len(iter(list)) = pushes - pops
    /\ Len(iter_rev(list)) = pushes - pops

\* C2: every pop returns what the same pop returns on the reference deque:
\* the logical first / last value, or None when the list is empty.
C2_PopsMatchReference ==
    IsPop => (~panicked /\ ret = refRet)

\* C3: in every reachable state with len() = 0, head = NIL and tail = NIL.
C3_EmptyMeansSentinels ==
    len(list) = 0 => (list.head = NIL /\ list.tail = NIL)

\* C4: the backing storage has no gaps: its length equals the logical list
\* length, and unordered iteration over the storage yields the same multiset
\* of values as ordered iteration from head.
C4_StorageDense ==
    /\ Len(list.buf) = Len(ref)
    /\ Len(iter_unordered(list)) = Len(iter(list))
    /\ SeqToBag(iter_unordered(list)) = SeqToBag(iter(list))

\* a pop has relocated the last storage slot, so that the physical order of
\* the storage differs from the logical order of the list
C4_Witness ==
    /\ IsPop /\ ret # None /\ ~panicked
    /\ Len(list.buf) >= 2
    /\ iter_unordered(list) # iter(list)

\* storage indices of the nodes, 0-based as in the source
Slots(l) == 0..(Len(l.buf) - 1)

\* C20: in every reachable non-empty list, the node at head has prev == NIL,
\* the node at tail has next == NIL, every other link is a storage index
\* whose target links back, and following next from head, and prev from
\* tail, visits every storage index exactly once.
C20_LinkStructure ==
    (~panicked /\ Len(list.buf) > 0) =>
        /\ InRange(list.buf, list.head) /\ InRange(list.buf, list.tail)
        /\ list.buf[list.head + 1].prev = NIL
        /\ list.buf[list.tail + 1].next = NIL
        /\ \A a \in Slots(list) :
               LET n == list.buf[a + 1]
               IN  /\ a # list.tail =>
                          /\ InRange(list.buf, n.next)
                          /\ list.buf[n.next + 1].prev = a
                   /\ a # list.head =>
                          /\ InRange(list.buf, n.prev)
                          /\ list.buf[n.prev + 1].next = a
        /\ Len(iter(list)) = Len(list.buf)
        /\ Len(iter_rev(list)) = Len(list.buf)

\* number of calls before position i of yields, made by op, that returned
\* an element
Yielded(op, i) ==
    Cardinality({j \in 1..(i - 1) : yields[j].op = op /\ yields[j].val # None})

\* C16: for iter, iter_mut and into_iter over a list of n elements, under any
\* interleaving of next and next_back, next yields successive elements from
\* the logical front and next_back from the logical back, the cursors never
\* yield the same element, exactly n elements are yielded, and once n
\* elements have been yielded every later call returns None.
C16_ListIterators ==
    lit # NoListIter =>
        \A i \in 1..Len(yields) :
            LET fronts == Yielded("next", i)
                backs == Yielded("next_back", i)
            IN  /\ ~yields[i].panicked
                /\ yields[i].val =
                       IF fronts + backs >= Len(ref) THEN None
                       ELSE IF yields[i].op = "next" THEN Some(ref[fronts + 1])
                       ELSE Some(ref[Len(ref) - backs])

\* ------------------------------------------------------- Vec properties
\* C8: for all sequences of push, pop, insert and remove, the vector's
\* elements in index order and its len() equal those of a reference sequence
\* driven by the same operations, and every operation returns what the
\* reference returns.
C8_VecMatchesReference ==
    phase = "vec" =>
        /\ as_slice(vec) = ref
        /\ vec.len = Len(ref)
        /\ ret = refRet
        /\ ~ub

\* a remove in the middle of a vector that has outgrown its starting capacity
\* has shifted the later elements down, and the elements left are not all equal
C8_Witness ==
    /\ phase = "vec" /\ lastOp = "try_remove" /\ ret = refRet /\ ret.ok
    /\ arg > 0 /\ arg < vec.len
    /\ cap(vec) > START_CAPACITY(sizeOfT)
    /\ \E i, j \in 1..Len(ref) : ref[i] # ref[j]

\* number of entries of trace before position i made by operation op
Prior(op, i) == Cardinality({j \in 1..(i - 1) : trace[j].op = op})

\* C9: under any interleaving of next and next_back, next yields the
\* lowest-index not-yet-yielded live element and next_back the highest-index
\* one, every read is of an index inside the live range [0, n), and no slot is
\* read more than once.
C9_DoubleEnded ==
    phase \in {"iter", "fault"} =>
        \A i \in 1..Len(trace) :
            /\ trace[i].idx >= 0 /\ trace[i].idx < Len(ref)
            /\ \A j \in 1..Len(trace) : j # i => trace[j].idx # trace[i].idx
            /\ trace[i].op = "next" => trace[i].idx = Prior("next", i)
            /\ trace[i].op = "next_back" =>
                   trace[i].idx = Len(ref) - 1 - Prior("next_back", i)
            /\ trace[i].val = ref[trace[i].idx + 1]

\* C10: when the owning iterator is dropped, every element of the original
\* live range [0, n) has been moved out exactly once, yielded or drained, and
\* no slot outside [0, n) has been read.
C10_DropDrainsAll ==
    phase = "dropped" =>
        /\ \A k \in 0..(Len(ref) - 1) :
               Cardinality({i \in 1..Len(trace) : trace[i].idx = k}) = 1
        /\ \A i \in 1..Len(trace) : trace[i].idx >= 0 /\ trace[i].idx < Len(ref)

TryOps == {"try_insert", "try_remove", "try_swap_remove"}

\* the index is outside what operation op accepts for a vector of n elements
OutOfRange(op, index, n) == IF op = "try_insert" THEN index > n ELSE index >= n

\* C11: try_insert with index > len, and try_remove and try_swap_remove with
\* index >= len, return IndexNotFound and leave the vector completely
\* unchanged (length, capacity, elements); with an index in range they
\* return Ok.
C11_TryOutOfRange ==
    [][(phase = "vec" /\ lastOp' \in TryOps) =>
          IF OutOfRange(lastOp', arg', vec.len)
          THEN ret' = IndexNotFound /\ vec' = vec
          ELSE ret'.ok]_vars

\* a rejected try_swap_remove on a vector that holds elements
C11_Witness ==
    /\ phase = "vec" /\ lastOp = "try_swap_remove"
    /\ ret = IndexNotFound /\ arg = vec.len /\ vec.len >= 2

\* C12: swap_remove(index) with index < len returns the element that was at
\* index, moves the former last element into position index when index was
\* not the last, leaves every other element where it was, decreases len by
\* one, and the multiset of elements is the old one minus the returned one.
C12_SwapRemove ==
    [][(phase = "vec" /\ lastOp' = "swap_remove" /\ arg' < vec.len) =>
          LET old == as_slice(vec)
              new == as_slice(vec')
          IN  /\ phase' = "vec"
              /\ ret' = Ok(old[arg' + 1])
              /\ vec'.len = vec.len - 1
              /\ arg' # vec.len - 1 => new[arg' + 1] = old[vec.len]
              /\ \A i \in 1..vec'.len : i # arg' + 1 => new[i] = old[i]
              /\ SeqToBag(new) (+) SeqToBag(<<old[arg' + 1]>>) = SeqToBag(old)]_vars

\* a swap_remove below the last position that returned one value and moved a
\* different one into its place
C12_Witness ==
    /\ phase = "vec" /\ lastOp = "swap_remove"
    /\ arg < vec.len /\ vec.len >= 2
    /\ ret.val # as_slice(vec)[arg + 1]

\* C19: the asserting insert, remove and swap_remove panic exactly when the
\* try_ form returns IndexNotFound, the panic message carries the index and
\* the unmodified length, and otherwise they have the effect and the result
\* of the try_ form.
C19_AssertingForms ==
    [][(phase = "vec" /\ lastOp' \in {"insert", "remove", "swap_remove"}) =>
          LET tries == IF lastOp' = "insert"
                       THEN {try_insert(vec, arg', v, sizeOfT) : v \in Vals}
                       ELSE IF lastOp' = "remove"
                       THEN {try_remove(vec, arg')}
                       ELSE {try_swap_remove(vec, arg')}
          IN  \E o \in tries :
                  IF o.ret = IndexNotFound
                  THEN /\ phase' = "panicked"
                       /\ ret' = PanicMsg(arg', vec.len)
                  ELSE /\ phase' = "vec"
                       /\ vec' = o.v
                       /\ ret' = o.ret]_vars

\* a swap_remove one past the end of a populated vector has panicked
C19_Witness ==
    /\ phase = "panicked" /\ lastOp = "swap_remove"
    /\ arg = vec.len /\ vec.len >= 2
    /\ ret = PanicMsg(arg, vec.len)

\* C13: converting a populated vector into a boxed slice and back yields a
\* vector with the same elements in the same order whose length and capacity
\* both equal the original length; shrink_to_fit leaves the elements
\* unchanged and sets the capacity exactly to len.
C13_BoxedRoundTrip ==
    (phase = "vec" /\ Len(ref) > 0) =>
        /\ lastOp = "from_box" =>
               /\ as_slice(vec) = ref
               /\ vec.len = Len(ref)
               /\ cap(vec) = Len(ref)
        /\ lastOp = "shrink_to_fit" =>
               /\ as_slice(vec) = ref
               /\ cap(vec) = vec.len

\* a vector with spare capacity and unequal elements has made the round trip
C13_Witness ==
    /\ phase = "vec" /\ lastOp = "from_box"
    /\ vec.len >= 3 /\ cap(vec) = vec.len
    /\ cap(vec) < START_CAPACITY(sizeOfT)
    /\ \E i, j \in 1..Len(ref) : ref[i] # ref[j]

\* C15: reserve(additional) on a vector with capacity - len >= additional
\* leaves capacity, length and contents unchanged.
C15_ReserveNoOp ==
    [][(phase = "vec" /\ lastOp' = "reserve" /\ cap(vec) - vec.len >= arg') =>
          vec' = vec]_vars

\* C25: in every reachable vector state len <= capacity, the slots [0, len)
\* hold initialized elements, the slots [len, capacity) hold none, and every
\* write, read and shift so far stayed inside [0, capacity) and read only
\* initialized slots.
C25_LiveRange ==
    phase = "vec" =>
        /\ vec.len <= cap(vec)
        /\ \A i \in 1..vec.len : vec.buf[i] # Uninit
        /\ \A i \in (vec.len + 1)..cap(vec) : vec.buf[i] = Uninit
        /\ ~ub

\* a push has filled a vector whose capacity is neither a starting capacity
\* nor a doubling of one: it came from the cap + additional branch of reserve
C25_Witness ==
    /\ phase = "vec" /\ lastOp = "push"
    /\ vec.len = cap(vec) /\ cap(vec) = 3
    /\ \A i \in 1..vec.len : vec.buf[i] # Uninit

\* C26: reserve(additional) on a buffer of capacity c sets the capacity to
\* max(2c, c + additional) when c > 0 and to max(START_CAPACITY, additional)
\* when c = 0, so that the capacity after reserve is at least len +
\* additional and not lower than before; and no operation other than
\* shrink_to_fit and into_boxed_slice lowers a vector's capacity.
C26_ReserveCapacity ==
    [][(phase = "vec" /\ phase' = "vec") =>
          /\ lastOp' = "reserve" =>
                 /\ cap(vec') = IF cap(vec) > 0
                                THEN Max(2 * cap(vec), cap(vec) + arg')
                                ELSE Max(START_CAPACITY(sizeOfT), arg')
                 /\ cap(vec') >= vec.len + arg'
                 /\ cap(vec') >= cap(vec)
          /\ lastOp' # "shrink_to_fit" => cap(vec') >= cap(vec)]_vars
\* ------------------------------------------------------- map properties
\* no node of any chain holds the key
Absent(m, key) ==
    \A b \in 1..Len(m.buckets) :
        \A n \in 1..Len(m.buckets[b]) : m.buckets[b][n].key # key

\* C17: get, get_mut, contains_key, remove and remove_entry of a key that is
\* not present return None / false and never fail, in every reachable state,
\* the new map with zero buckets and a map emptied by removes included (no
\* bucket index is computed modulo zero), and leave the map unchanged.
C17_AbsentKey ==
    \A k \in Keys :
        Absent(map, k) =>
            /\ get_bucket(map, hash, k) # Some(DivByZero)
            /\ map_get(map, hash, k) = None
            /\ map_get_mut(map, hash, k) = [m |-> map, ret |-> None]
            /\ ~contains_key(map, hash, k)
            /\ map_remove(map, hash, k) = [m |-> map, ret |-> None]
            /\ map_remove_entry(map, hash, k) = [m |-> map, ret |-> None]

\* a remove of an absent key has returned None on a map that has buckets and
\* was emptied by a remove
C17_Witness ==
    /\ lastOp = "remove" /\ ret = None /\ refRet = None
    /\ Absent(map, arg)
    /\ removes > 0 /\ map_len(map) = 0 /\ capacity(map) > 0

\* C18: for a set built by inserts alone, across growths of the bucket array,
\* contains(x) is true for every inserted value and false for every value
\* never inserted.
C18_SetContains ==
    \A x \in Keys : set_contains(map, hash, x) <=> x \in ref

\* the bucket array has grown past its starting size while the set holds one
\* value and lacks another that shared its bucket before the growth
C18_Witness ==
    /\ capacity(map) > MAP_START_CAPACITY
    /\ \E x, y \in Keys :
           /\ x \in ref /\ y \notin ref
           /\ hash[x] # hash[y]
           /\ hash[x] % MAP_START_CAPACITY = hash[y] % MAP_START_CAPACITY

\* every key inserted so far is retrievable with the value it was given
Retrievable ==
    \A k \in 0..(Len(ref) - 1) : map_get(map, hash, k) = Some(ref[k + 1])

\* the keys inserted so far whose hash value is r modulo the starting capacity
SameStartBucket(r) ==
    {k \in 0..(Len(ref) - 1) : hash[k] % MAP_START_CAPACITY = r}

\* C14: inserting N items with distinct keys, N greater than the starting
\* capacity 8, always leaves capacity() strictly greater than the starting
\* capacity, whatever the hash values of the keys, and all N items remain
\* retrievable by get.
C14_GrowthBeyondStart ==
    Len(ref) > MAP_START_CAPACITY =>
        /\ capacity(map) > MAP_START_CAPACITY
        /\ Retrievable

\* C14 as amended: inserting items with distinct keys leaves capacity()
\* strictly greater than the starting capacity exactly when at least
\* MAX_BUCKET_LEN of the keys have hash values that agree modulo the starting
\* capacity, and all the items remain retrievable by get either way.
C14_GrowthWhenChainFull ==
    /\ capacity(map) > MAP_START_CAPACITY <=>
           \E r \in 0..(MAP_START_CAPACITY - 1) :
               Cardinality(SameStartBucket(r)) >= MAX_BUCKET_LEN
    /\ Retrievable

\* more keys than the starting capacity are in a map that has grown past it
\* and holds keys in more than one bucket
C14_Witness ==
    /\ Len(ref) > MAP_START_CAPACITY
    /\ capacity(map) > MAP_START_CAPACITY
    /\ \E j, k \in 0..(Len(ref) - 1) : hash[j] % capacity(map) # hash[k] % capacity(map)

\* C21: in every reachable map state, after any inserts, removes and growths,
\* every stored entry lies in the bucket whose index is hash(key) modulo the
\* current bucket count.
C21_EntriesInHomeBucket ==
    \A b \in 1..Len(map.buckets) :
        \A n \in 1..Len(map.buckets[b]) :
            hash[map.buckets[b][n].key] % Len(map.buckets) = b - 1

\* after a growth and a remove, an entry sits in a bucket that the starting
\* array did not have
C21_Witness ==
    /\ removes > 0
    /\ capacity(map) > MAP_START_CAPACITY
    /\ \E b \in (MAP_START_CAPACITY + 1)..Len(map.buckets) : map.buckets[b] # <<>>

\* C22: every insert after which the touched chain holds MAX_BUCKET_LEN or
\* more entries, once the new entry is appended, doubles the bucket count
\* before it returns, also when an earlier rehash left that chain at or above
\* the threshold.
C22_ThresholdTriggersGrowth ==
    [][(/\ lastOp' = "insert"
        /\ capacity(map) > 0
        /\ Len(map.buckets[get_bucket_unchecked(map, hash', arg') + 1]) + 1
               >= MAX_BUCKET_LEN)
       => capacity(map') = 2 * capacity(map)]_vars

\* the stored entries as a multiset
MapEntries(m) == SeqToBag(Flatten(m.buckets, Len(m.buckets)))

\* C23: grow on a map with b > 0 buckets produces exactly 2b buckets and
\* leaves the multiset of stored entries unchanged; on a map with zero
\* buckets it produces exactly START_CAPACITY empty buckets.
C23_GrowKeepsEntries ==
    LET grown == map_grow(map, hash)
    IN  IF capacity(map) = 0
        THEN grown.buckets = [i \in 1..MAP_START_CAPACITY |-> <<>>]
        ELSE /\ capacity(grown) = 2 * capacity(map)
             /\ MapEntries(grown) = MapEntries(map)

\* an insert has grown a map whose filled chain the rehash split over two
\* buckets
C23_Witness ==
    /\ lastOp = "insert"
    /\ capacity(map) = 2 * MAP_START_CAPACITY
    /\ map_len(map) = MAX_BUCKET_LEN
    /\ \E a, b \in 1..Len(map.buckets) :
           a # b /\ map.buckets[a] # <<>> /\ map.buckets[b] # <<>>

IsPowerOfTwo(n) == \E k \in 0..n : 2^k = n

\* C24: the bucket count is 0, only before the first insert, or a power of
\* two that is at least 8; no operation decreases it, the first insert into
\* a map with zero buckets sets it to 8, and every later change doubles it.
C24_BucketCount ==
    [][/\ capacity(map') >= capacity(map)
       /\ capacity(map') = 0 \/
              (capacity(map') >= MAP_START_CAPACITY /\ IsPowerOfTwo(capacity(map')))
       /\ lastOp' = "insert" =>
              capacity(map') = IF capacity(map) = 0 THEN MAP_START_CAPACITY
                               ELSE capacity(map')
       /\ lastOp' = "insert" => capacity(map') # 0
       /\ (capacity(map') # capacity(map) /\ capacity(map) # 0) =>
              capacity(map') = 2 * capacity(map)]_vars

\* a remove has taken an entry out of a map that had doubled its buckets
C24_Witness ==
    /\ lastOp = "remove" /\ ret # None
    /\ capacity(map) = 2 * MAP_START_CAPACITY

\* C5: for every sequence of inserts, len() equals the number of distinct
\* keys inserted; an insert of a key already present returns the previous
\* (key, value) entry and does not increase len(), an insert of a new key
\* returns None.
C5_InsertDistinctKeys ==
    /\ removes = 0 => map_len(map) = Cardinality({k \in Keys : ref[k] # None})
    /\ lastOp = "insert" => ret = refRet

\* C6: for every key inserted and not subsequently removed, get(key) returns
\* the value given by the most recent insert of that key.
C6_GetMostRecent ==
    \A k \in Keys : ref[k] # None => map_get(map, hash, k) = ref[k]

\* C7: remove(key) of a present key returns its current value, after which
\* get(key) is absent, len() is exactly one less and every other key maps to
\* the same value as before.
C7_RemovePresent ==
    [][(lastOp' = "remove" /\ map_get(map, hash, arg') # None) =>
          /\ ret' = map_get(map, hash, arg')
          /\ map_get(map', hash', arg') = None
          /\ map_len(map') = map_len(map) - 1
          /\ \A k \in Keys \ {arg'} :
                 map_get(map', hash', k) = map_get(map, hash, k)]_vars

\* C27: no Vec operation (new, with_capacity, push, reserve, shrink_to_fit,
\* into_boxed_slice, drop) hands the allocator an allocation, reallocation or
\* deallocation request of zero bytes, and a deallocation on drop is given
\* exactly the layout of the last resize.
C27_NoZeroSizeRequests ==
    \A k \in 1..Len(requests) :
        /\ ~ZeroSized(requests[k])
        /\ requests[k].fn = "dealloc" => requests[k].layout = rawvec.block

\* C28: NIL never refers to a storage slot.  A push_front / push_back that
\* returns has given its node an index below NIL, and a push for which no
\* index below NIL is left panics instead of storing a node at index NIL.
C28_NilIsNoSlot ==
    [][(lastOp' \in {"push_back", "push_front"} /\ pushes' = pushes + 1) =>
          IF Len(list.buf) < NIL
          THEN ~panicked' /\ ~InRange(list'.buf, NIL)
          ELSE panicked' /\ list'.head = list.head /\ list'.tail = list.tail]_vars

====
